---- MODULE Spec2Model ----
(***************************************************************************)
(* Sudoku as graph colouring: the encoding, decoding and scoring pipeline  *)
(* of sudoku.py (9x9) and sudoku4.py (4x4).                                *)
(*                                                                         *)
(* Python lists are modelled as sequences; a Python index i is position    *)
(* i + 1 of the sequence.  A clue (x, y) is the pair <<x, y>>: c[1] is the *)
(* cell index (c[0] in Python), c[2] the value (c[1] in Python).  A graph  *)
(* is its set of undirected edges, an edge being the set of its ends (a    *)
(* self-loop is a singleton).  A colouring is a function from the cells it *)
(* colours to colour labels.                                               *)
(***************************************************************************)
EXTENDS Integers, Sequences, FiniteSets

VARIABLES
    variant,    \* "9x9": solve of sudoku.py, "4x4": sudoku4.py; "adjacent",
                \* "adjacent4", "cost": a single call of that function
    pc,         \* the position reached in solve / main
    board,      \* solve's grid argument
    clues,      \* the clue list
    G,          \* the constraint graph
    coloring,   \* the oracle's answer
    solution,   \* the decoded solution
    out,        \* what was printed
    err,        \* the exception that ended the run, "" when none
    args,       \* the arguments of a single call of adjacent
    result      \* <<>> before the call returns, <<value>> after

vars == <<variant, pc, board, clues, G, coloring, solution, out, err, args, result>>

-----------------------------------------------------------------------------
(* Program constants *)

\* range(81): the cells of the 9x9 grid
NumCells == 81
\* range(16): the cells of the 4x4 grid
NumCells4 == 16
\* lookup.get(..., 9): the 9x9 decoder's fallback digit
FallbackDigit == 9
\* coloring.get(i, '?'): the label the 9x9 decoder uses for an uncoloured cell
Sentinel == "?"

Cells == 0 .. (NumCells - 1)
Cells4 == 0 .. (NumCells4 - 1)

\* combinations(range(n), 2): the pairs i < j
Combinations2(n) == {p \in (0 .. (n - 1)) \X (0 .. (n - 1)) : p[1] < p[2]}

-----------------------------------------------------------------------------
(* adjacent *)

\* sudoku.py, adjacent with the block test on i % 3 instead of i % 9 // 3
adjacent_block_slip(i, j) ==
    /\ i # j
    /\ \/ i \div 9 = j \div 9
       \/ i % 9 = j % 9
       \/ (i \div 27 = j \div 27) /\ (i % 3 = j % 3)

\* sudoku.py, adjacent(i, j)
adjacent(i, j) ==
    /\ i # j
    /\ \/ i \div 9 = j \div 9
       \/ i % 9 = j % 9
       \/ (i \div 27 = j \div 27) /\ ((i % 9) \div 3 = (j % 9) \div 3)

\* Python's i & k on non-negative integers
RECURSIVE BitAnd(_, _)
BitAnd(i, k) ==
    IF i = 0 \/ k = 0 THEN 0
    ELSE (i % 2) * (k % 2) + 2 * BitAnd(i \div 2, k \div 2)

\* the masks of sudoku4.py's adjacent
Masks4 == {3, 10, 12}

\* sudoku4.py, adjacent(i, j)
adjacent4(i, j) ==
    /\ i # j
    /\ \E k \in Masks4 : BitAnd(i, k) = BitAnd(j, k)

-----------------------------------------------------------------------------
(* Lists and dictionaries *)

Range(f) == {f[x] : x \in DOMAIN f}

\* a list without its last element, lst[:-1]
Front(lst) == SubSeq(lst, 1, Len(lst) - 1)

Min(S) == CHOOSE x \in S : \A y \in S : x <= y

\* the elements of a finite set of integers in ascending order
RECURSIVE Ascending(_)
Ascending(S) == IF S = {} THEN <<>> ELSE <<Min(S)>> \o Ascending(S \ {Min(S)})

\* the sequences that enumerate the finite set S, each element once
Enumerations(S) ==
    {f \in [1 .. Cardinality(S) -> S] : \A a, b \in DOMAIN f : a # b => f[a] # f[b]}

\* an empty dict
EmptyDict == [k \in {} |-> 0]

\* d[k] = v on a dict
DictSet(d, k, v) == [x \in (DOMAIN d) \union {k} |-> IF x = k THEN v ELSE d[x]]

-----------------------------------------------------------------------------
(* make_sudoku_graph *)

\* lines 23-24 of sudoku.py: the edges between adjacent cells of the grid
StructuralEdges ==
    {{p[1], p[2]} : p \in {q \in Combinations2(NumCells) : adjacent(q[1], q[2])}}

\* lines 13-14 of sudoku4.py
StructuralEdges4 ==
    {{p[1], p[2]} : p \in {q \in Combinations2(NumCells4) : adjacent4(q[1], q[2])}}

\* lines 25-27 of sudoku.py, 15-17 of sudoku4.py: an edge between the cells of
\* every two clues (list positions p < q) whose values differ
ClueEdges(cl) ==
    {{cl[p[1] + 1][1], cl[p[2] + 1][1]} :
        p \in {q \in Combinations2(Len(cl)) : cl[q[1] + 1][2] # cl[q[2] + 1][2]}}

\* the clue loop joining only neighbours in the list (zip(clues, clues[1:]))
ClueEdges_neighbours_only(cl) ==
    {{cl[k][1], cl[k + 1][1]} : k \in {q \in 1 .. (Len(cl) - 1) : cl[q][2] # cl[q + 1][2]}}

\* make_sudoku_graph whose clue loop joins only neighbours in the list
make_sudoku_graph_neighbours_only(cl) == StructuralEdges \union ClueEdges_neighbours_only(cl)

\* make_sudoku_graph without the clue loop of lines 25-27
make_sudoku_graph_no_clue_edges(cl) == StructuralEdges

\* sudoku.py, make_sudoku_graph(clues)
make_sudoku_graph(cl) == StructuralEdges \union ClueEdges(cl)

\* sudoku4.py, make_sudoku_graph(clues)
make_sudoku_graph4(cl) == StructuralEdges4 \union ClueEdges(cl)

\* G.nodes: add_edge and add_edges_from add the ends of every edge
Nodes(g) == UNION g

-----------------------------------------------------------------------------
(* make_clues *)

AsciiDigits == {"0", "1", "2", "3", "4", "5", "6", "7", "8", "9"}

\* Two characters outside ASCII for which str.isdigit() is true:
\* U+0663 ARABIC-INDIC DIGIT THREE, which int() reads as 3, and
\* U+00B2 SUPERSCRIPT TWO, on which int() raises ValueError.
ArabicIndicThree == "U+0663"
SuperscriptTwo == "U+00B2"

\* str.isdigit() on one character
isdigit(x) == x \in AsciiDigits \union {ArabicIndicThree, SuperscriptTwo}

\* whether int(x) returns, for a character with x.isdigit()
int_returns(x) == x # SuperscriptTwo

\* int(x) on one character
int(x) ==
    CASE x = "0" -> 0 [] x = "1" -> 1 [] x = "2" -> 2 [] x = "3" -> 3 [] x = "4" -> 4
      [] x = "5" -> 5 [] x = "6" -> 6 [] x = "7" -> 7 [] x = "8" -> 8 [] x = "9" -> 9
      [] x = ArabicIndicThree -> 3

\* line 36: the indices that pass  x.isdigit() and x != '0'
ClueIndices(b) == {i \in 0 .. (Len(b) - 1) : isdigit(b[i + 1]) /\ b[i + 1] # "0"}

\* line 36 raises ValueError when int(x) does
make_clues_raises(b) == \E i \in ClueIndices(b) : ~int_returns(b[i + 1])

\* line 36: the clues read off the board, in board order
BoardClues(b) ==
    LET idx == Ascending(ClueIndices(b))
    IN  [k \in 1 .. Len(idx) |-> <<idx[k], int(b[idx[k] + 1])>>]

\* line 37: missing
Missing(cl) == (1 .. 9) \ {c[2] : c \in Range(cl)}

\* lines 38-39: one clue per missing value at 81, 82, ..., in the order the set
\* `missing` is iterated (order: a sequence enumerating the set)
PhantomClues(order) == [k \in 1 .. Len(order) |-> <<NumCells + (k - 1), order[k]>>]

\* lines 38-39 with the phantom index not advancing (81 for every missing value)
PhantomClues_same_index(order) == [k \in 1 .. Len(order) |-> <<NumCells, order[k]>>]

\* make_clues whose phantom clues all take index 81
make_clues_same_index(b, order) == BoardClues(b) \o PhantomClues_same_index(order)

\* sudoku.py, make_clues(board); order is the iteration order of the set missing
make_clues(b, order) == BoardClues(b) \o PhantomClues(order)

-----------------------------------------------------------------------------
(* decode *)

\* line 31 of sudoku.py: the dict comprehension after the first k clues
RECURSIVE LookupAfter(_, _, _)
LookupAfter(col, cl, k) ==
    IF k = 0 THEN EmptyDict
    ELSE LET prev == LookupAfter(col, cl, k - 1)
             x == cl[k][1]
             y == cl[k][2]
         IN  IF x \in DOMAIN col THEN DictSet(prev, col[x], y) ELSE prev

\* line 31 of sudoku.py: lookup
Lookup(col, cl) == LookupAfter(col, cl, Len(cl))

\* line 32 of sudoku.py with the lookup lk
DecodeWith(lk, col) ==
    [i \in 1 .. NumCells |->
        LET c == IF (i - 1) \in DOMAIN col THEN col[i - 1] ELSE Sentinel
        IN  IF c \in DOMAIN lk THEN lk[c] ELSE FallbackDigit]

\* line 32 reading the colour of cell i + 1 for cell i
DecodeWith_next_cell(lk, col) ==
    [i \in 1 .. NumCells |->
        LET c == IF i \in DOMAIN col THEN col[i] ELSE Sentinel
        IN  IF c \in DOMAIN lk THEN lk[c] ELSE FallbackDigit]

\* decode reading the colour of cell i + 1 for cell i
decode_next_cell(col, cl) == DecodeWith_next_cell(Lookup(col, cl), col)

\* sudoku.py, decode(coloring, clues)
decode(col, cl) == DecodeWith(Lookup(col, cl), col)

\* line 21 of sudoku4.py raises KeyError when a clue cell has no colour
lookup4_raises(col, cl) == \E k \in 1 .. Len(cl) : cl[k][1] \notin DOMAIN col

\* line 21 of sudoku4.py: coloring[x] is read for every clue, no membership test
Lookup4(col, cl) == LookupAfter(col, cl, Len(cl))

\* line 22 of sudoku4.py raises KeyError when a cell has no colour or its colour
\* is no key of lookup
solution4_raises(col, cl) ==
    \E i \in Cells4 : i \notin DOMAIN col \/ col[i] \notin DOMAIN Lookup4(col, cl)

\* decode of sudoku4.py testing  x in coloring  in line 21, as sudoku.py does
decode4_raises_clues_skipped(col, cl) == solution4_raises(col, cl)

\* sudoku4.py, decode(coloring, clues) raises KeyError
decode4_raises(col, cl) == lookup4_raises(col, cl) \/ solution4_raises(col, cl)

\* sudoku4.py, decode: the solution of line 22, when nothing raises
decode4(col, cl) ==
    LET lk == Lookup4(col, cl) IN [i \in 1 .. NumCells4 |-> lk[col[i - 1]]]

\* disp: the rows printed, width values each
disp(sol, width) ==
    [r \in 1 .. (Len(sol) \div width) |-> SubSeq(sol, (r - 1) * width + 1, r * width)]

-----------------------------------------------------------------------------
(* cost *)

\* lines 59-62 of sudoku.py: the terms of the sum with first index i
CostOfCell(a, i) ==
    Cardinality({j \in (i + 1) .. (NumCells - 1) : adjacent(i, j) /\ a[i + 1] = a[j + 1]})

RECURSIVE CostFrom(_, _)
CostFrom(a, i) == IF i >= NumCells THEN 0 ELSE CostOfCell(a, i) + CostFrom(a, i + 1)

\* cost with the pairs of cell 0 left out (range(1, 81))
cost_from_one(a) == CostFrom(a, 1)

\* sudoku.py, cost(a)
cost(a) == CostFrom(a, 0)

-----------------------------------------------------------------------------
(* Inputs: the boards given to solve *)

\* lines 67-75 of sudoku.py
grid ==
    <<"5","3",".",".","7",".",".",".",".">>
    \o <<"6",".",".","1","9","5",".",".",".">>
    \o <<".","9","8",".",".",".",".","6",".">>
    \o <<"8",".",".",".","6",".",".",".","3">>
    \o <<"4",".",".","8",".","3",".",".","1">>
    \o <<"7",".",".",".","2",".",".",".","6">>
    \o <<".","6",".",".",".",".","2","8",".">>
    \o <<".",".",".","4","1","9",".",".","5">>
    \o <<".",".",".",".","8",".",".","7","9">>

\* lines 77-85 of sudoku.py
grid2 ==
    <<".",".","1",".",".",".",".",".",".">>
    \o <<".","6",".","8",".",".","3",".",".">>
    \o <<".","8",".",".",".",".","5","4","6">>
    \o <<"1",".",".","6","4",".","8",".",".">>
    \o <<".",".",".","1","3","2",".",".",".">>
    \o <<".",".","7",".","9","8",".",".","4">>
    \o <<"6","5","3",".",".",".",".","1",".">>
    \o <<".",".","9",".",".","4",".","5",".">>
    \o <<".",".",".",".",".",".","2",".",".">>

\* a board with no clue at all
EmptyBoard == [i \in 1 .. NumCells |-> "."]

\* grid without its 2 and its 4: two values are missing
TwoMissingBoard == [i \in 1 .. NumCells |-> IF grid[i] \in {"2", "4"} THEN "." ELSE grid[i]]

BaseBoards == {grid, grid2, EmptyBoard, TwoMissingBoard}

\* the characters a board is edited with
Alphabet == AsciiDigits \union {".", "x", ArabicIndicThree, SuperscriptTwo}

\* the cells at which a base board is edited: the first NumEditCells of the list
EditCellList == <<0, 80, 1, 40>>
NumEditCells == 1
EditCells == {EditCellList[k] : k \in 1 .. NumEditCells}

\* the characters appended to a base board to make it too long
AppendChars == {"5", "."}

\* the boards: a base board, a base board with one cell edited, a base board
\* without its last character, a base board with one character appended
Boards ==
    BaseBoards
    \union {[b EXCEPT ![e + 1] = x] : b \in BaseBoards, e \in EditCells, x \in Alphabet}
    \union {Front(b) : b \in BaseBoards}
    \union {Append(b, x) : b \in BaseBoards, x \in AppendChars}

-----------------------------------------------------------------------------
(* Inputs: the iteration order of the set `missing` *)

Reverse(s) == [k \in 1 .. Len(s) |-> s[Len(s) + 1 - k]]

\* the list with its first element moved to the end
Rotate(s) == IF Len(s) = 0 THEN s ELSE Tail(s) \o <<Head(s)>>

\* Sets of at most MaxPermuted elements are iterated in every order; larger
\* ones in ascending order, in descending order and in ascending order
\* rotated by one.
MaxPermuted == 2

IterationOrders(S) ==
    IF Cardinality(S) <= MaxPermuted THEN Enumerations(S)
    ELSE {Ascending(S), Reverse(Ascending(S)), Rotate(Ascending(S))}

-----------------------------------------------------------------------------
(* Inputs: the colourings the oracle returns *)

\* the solution of grid
Solved1 ==
    <<5,3,4,6,7,8,9,1,2>>
    \o <<6,7,2,1,9,5,3,4,8>>
    \o <<1,9,8,3,4,2,5,6,7>>
    \o <<8,5,9,7,6,1,4,2,3>>
    \o <<4,2,6,8,5,3,7,9,1>>
    \o <<7,1,3,9,2,4,8,5,6>>
    \o <<9,6,1,5,3,7,2,8,4>>
    \o <<2,8,7,4,1,9,6,3,5>>
    \o <<3,4,5,2,8,6,1,7,9>>

\* the solution of grid2
Solved2 ==
    <<5,7,1,4,6,3,9,8,2>>
    \o <<9,6,4,8,2,5,3,7,1>>
    \o <<3,8,2,9,7,1,5,4,6>>
    \o <<1,9,5,6,4,7,8,2,3>>
    \o <<8,4,6,1,3,2,7,9,5>>
    \o <<2,3,7,5,9,8,1,6,4>>
    \o <<6,5,3,2,8,9,4,1,7>>
    \o <<7,2,9,3,1,4,6,5,8>>
    \o <<4,1,8,7,5,6,2,3,9>>

SolvedGrids == {Solved1, Solved2}

\* colour labels: one per digit, a tenth one, and the decoder's own '?'
Letters == <<"a", "b", "c", "d", "e", "f", "g", "h", "i">>
TenthLabel == "j"

\* digit -> colour label, one label per digit
PlainLabels == [d \in 1 .. 9 |-> Letters[d]]

\* the same with '?' as the label of 5
SentinelLabels == [d \in 1 .. 9 |-> IF d = 5 THEN Sentinel ELSE Letters[d]]

\* the same with 1 and 2 sharing a label: eight labels
MergedLabels == [d \in 1 .. 9 |-> IF d = 2 THEN Letters[1] ELSE Letters[d]]

Relabelings == {PlainLabels, SentinelLabels, MergedLabels}

\* the value of the first clue at cell x
ValueAt(cl, x) == cl[Min({k \in 1 .. Len(cl) : cl[k][1] = x})][2]

\* the colouring of every vertex of g that follows a solved grid on the cells of
\* the grid and the clue value on the other vertices
FullColoring(g, cl, solved, relabel) ==
    [x \in Nodes(g) |-> relabel[IF x \in 0 .. (Len(solved) - 1) THEN solved[x + 1] ELSE ValueAt(cl, x)]]

Restrict(f, S) == [x \in (DOMAIN f) \intersect S |-> f[x]]

\* the vertices at which a colouring is perturbed: the first NumPerturbCells of the list
PerturbCellList == <<0, 81, 2, 82>>
NumPerturbCells == 2
PerturbCells == {PerturbCellList[k] : k \in 1 .. NumPerturbCells}
PerturbLabels == {Letters[1], TenthLabel, Sentinel}

\* the colouring restricted to the clue cells
OnClueCells(full, cl) == Restrict(full, {c[1] : c \in Range(cl)})

\* the colourings that leave one vertex out and the ones that give one vertex
\* another label
Perturbed(full) ==
    {Restrict(full, (DOMAIN full) \ {p}) : p \in PerturbCells}
    \union {[full EXCEPT ![p] = l] : p \in PerturbCells \intersect DOMAIN full, l \in PerturbLabels}

\* what the oracle of lines 49-52 may return for the graph g: nothing at all;
\* for a solved grid and a labelling, the colouring of all vertices and the
\* colouring of the clue cells only; for the plain labelling, its perturbations
Colorings(g, cl) ==
    {EmptyDict}
    \union {FullColoring(g, cl, s, r) : s \in SolvedGrids, r \in Relabelings}
    \union {OnClueCells(FullColoring(g, cl, s, r), cl) : s \in SolvedGrids, r \in Relabelings}
    \union UNION {Perturbed(FullColoring(g, cl, s, PlainLabels)) : s \in SolvedGrids}

-----------------------------------------------------------------------------
(* Inputs of the 4x4 program *)

\* line 30 of sudoku4.py
MainClues == <<(<<0, 4>>), (<<2, 1>>), (<<7, 2>>), (<<8, 3>>), (<<13, 4>>)>>

\* the cells of the clue a caller adds to the list: a clue cell, a free cell,
\* a cell outside the grid
ExtraCells4 == {0, 5, 16}

\* the clue lists given to make_sudoku_graph and decode: the list of main, its
\* beginnings, its reversal, and the list with one more clue
ClueLists4 ==
    {SubSeq(MainClues, 1, k) : k \in 0 .. Len(MainClues)}
    \union {Reverse(MainClues)}
    \union {Append(MainClues, <<x, v>>) : x \in ExtraCells4, v \in 1 .. 4}

\* the solution of the puzzle of main
Solved4 == <<4,2,1,3>> \o <<1,3,4,2>> \o <<3,1,2,4>> \o <<2,4,3,1>>

\* digit -> colour label
Letters4 == <<"B", "C", "D", "A">>
FifthLabel == "E"

Relabelings4 ==
    { [d \in 1 .. 4 |-> Letters4[d]],
      [d \in 1 .. 4 |-> IF d = 2 THEN Letters4[1] ELSE Letters4[d]] }

PerturbCellList4 == <<13, 16, 1>>
NumPerturbCells4 == 2
PerturbCells4 == {PerturbCellList4[k] : k \in 1 .. NumPerturbCells4}
PerturbLabels4 == {Letters4[1], FifthLabel}

Perturbed4(full) ==
    {Restrict(full, (DOMAIN full) \ {p}) : p \in PerturbCells4}
    \union {[full EXCEPT ![p] = l] : p \in PerturbCells4 \intersect DOMAIN full, l \in PerturbLabels4}

\* what the oracle of line 32 may return for the graph g
Colorings4(g, cl) ==
    {EmptyDict}
    \union {FullColoring(g, cl, Solved4, r) : r \in Relabelings4}
    \union {OnClueCells(FullColoring(g, cl, Solved4, r), cl) : r \in Relabelings4}
    \union UNION {Perturbed4(FullColoring(g, cl, Solved4, r)) : r \in Relabelings4}

-----------------------------------------------------------------------------
(* The programs *)

NoOutput == [grid |-> <<>>, cost |-> <<>>]

\* solve(grid) is called
Init9 ==
    /\ variant = "9x9"
    /\ pc = "make_clues"
    /\ board \in Boards
    /\ clues = <<>>
    /\ G = {}
    /\ coloring = EmptyDict
    /\ solution = <<>>
    /\ out = NoOutput
    /\ err = ""
    /\ args = <<>>
    /\ result = <<>>

\* the 4x4 program starts with its clue list
Init4 ==
    /\ variant = "4x4"
    /\ pc = "make_graph"
    /\ board = <<>>
    /\ clues \in ClueLists4
    /\ G = {}
    /\ coloring = EmptyDict
    /\ solution = <<>>
    /\ out = NoOutput
    /\ err = ""
    /\ args = <<>>
    /\ result = <<>>

Init == Init9 \/ Init4

\* sudoku.py line 47: clues = make_clues(grid)
MakeClues ==
    /\ variant = "9x9"
    /\ pc = "make_clues"
    /\ IF make_clues_raises(board)
       THEN /\ pc' = "raised"
            /\ err' = "ValueError"
            /\ UNCHANGED clues
       ELSE /\ \E order \in IterationOrders(Missing(BoardClues(board))) :
                  clues' = make_clues(board, order)
            /\ pc' = "make_graph"
            /\ UNCHANGED err
    /\ UNCHANGED <<variant, board, G, coloring, solution, out, args, result>>

\* sudoku.py line 48: G = make_sudoku_graph(clues)
MakeGraph ==
    /\ variant = "9x9"
    /\ pc = "make_graph"
    /\ G' = make_sudoku_graph(clues)
    /\ pc' = "color"
    /\ UNCHANGED <<variant, board, clues, coloring, solution, out, err, args, result>>

\* sudoku.py lines 49-52: the oracle returns a colouring
Color ==
    /\ variant = "9x9"
    /\ pc = "color"
    /\ coloring' \in Colorings(G, clues)
    /\ pc' = "decode"
    /\ UNCHANGED <<variant, board, clues, G, solution, out, err, args, result>>

\* sudoku.py lines 49-52: the oracle raises, and solve with it
ColorRaises ==
    /\ variant = "9x9"
    /\ pc = "color"
    /\ pc' = "raised"
    /\ err' = "OracleError"
    /\ UNCHANGED <<variant, board, clues, G, coloring, solution, out, args, result>>

\* sudoku.py line 53: solution = decode(coloring, clues)
Decode ==
    /\ variant = "9x9"
    /\ pc = "decode"
    /\ solution' = decode(coloring, clues)
    /\ pc' = "report"
    /\ UNCHANGED <<variant, board, clues, G, coloring, out, err, args, result>>

\* sudoku.py lines 54-55: disp(solution) and print('Cost: %d\n' % cost(solution))
Report ==
    /\ variant = "9x9"
    /\ pc = "report"
    /\ out' = [grid |-> disp(solution, 9), cost |-> <<cost(solution)>>]
    /\ pc' = "done"
    /\ UNCHANGED <<variant, board, clues, G, coloring, solution, err, args, result>>

\* sudoku4.py line 31: G = make_sudoku_graph(clues)
MakeGraph4 ==
    /\ variant = "4x4"
    /\ pc = "make_graph"
    /\ G' = make_sudoku_graph4(clues)
    /\ pc' = "color"
    /\ UNCHANGED <<variant, board, clues, coloring, solution, out, err, args, result>>

\* sudoku4.py line 32: the oracle returns a colouring
Color4 ==
    /\ variant = "4x4"
    /\ pc = "color"
    /\ coloring' \in Colorings4(G, clues)
    /\ pc' = "decode"
    /\ UNCHANGED <<variant, board, clues, G, solution, out, err, args, result>>

\* sudoku4.py line 32: the oracle raises, and main with it
ColorRaises4 ==
    /\ variant = "4x4"
    /\ pc = "color"
    /\ pc' = "raised"
    /\ err' = "OracleError"
    /\ UNCHANGED <<variant, board, clues, G, coloring, solution, out, args, result>>

\* sudoku4.py line 34: decode(coloring, clues), which prints the solution or
\* raises KeyError before anything is printed
Decode4 ==
    /\ variant = "4x4"
    /\ pc = "decode"
    /\ IF decode4_raises(coloring, clues)
       THEN /\ pc' = "raised"
            /\ err' = "KeyError"
            /\ UNCHANGED <<solution, out>>
       ELSE /\ solution' = decode4(coloring, clues)
            /\ out' = [grid |-> disp(solution', 4), cost |-> <<>>]
            /\ pc' = "done"
            /\ UNCHANGED err
    /\ UNCHANGED <<variant, board, clues, G, coloring, args, result>>

Next ==
    \/ MakeClues
    \/ MakeGraph
    \/ Color
    \/ ColorRaises
    \/ Decode
    \/ Report
    \/ MakeGraph4
    \/ Color4
    \/ ColorRaises4
    \/ Decode4

Spec == Init /\ [][Next]_vars

-----------------------------------------------------------------------------
(* Single calls of adjacent and of cost *)

InitAdj ==
    /\ variant \in {"adjacent", "adjacent4"}
    /\ pc = "call"
    /\ args \in IF variant = "adjacent" THEN Cells \X Cells ELSE Cells4 \X Cells4
    /\ result = <<>>
    /\ board = <<>>
    /\ clues = <<>>
    /\ G = {}
    /\ coloring = EmptyDict
    /\ solution = <<>>
    /\ out = NoOutput
    /\ err = ""

\* sudoku.py, a call adjacent(i, j)
CallAdjacent ==
    /\ variant = "adjacent"
    /\ pc = "call"
    /\ result' = <<adjacent(args[1], args[2])>>
    /\ pc' = "returned"
    /\ UNCHANGED <<variant, board, clues, G, coloring, solution, out, err, args>>

\* sudoku4.py, a call adjacent(i, j)
CallAdjacent4 ==
    /\ variant = "adjacent4"
    /\ pc = "call"
    /\ result' = <<adjacent4(args[1], args[2])>>
    /\ pc' = "returned"
    /\ UNCHANGED <<variant, board, clues, G, coloring, solution, out, err, args>>

NextAdj == CallAdjacent \/ CallAdjacent4

SpecAdj == InitAdj /\ [][NextAdj]_vars

\* every row 1 2 ... 9: no row holds a digit twice, every column does
RepeatedRows == [i \in 1 .. NumCells |-> ((i - 1) % 9) + 1]

\* every column 1 2 ... 9 from top to bottom
RepeatedColumns == [i \in 1 .. NumCells |-> ((i - 1) \div 9) + 1]

\* row r is 1 2 ... 9 rotated by r: rows and columns are right, blocks are not
LatinSquare == [i \in 1 .. NumCells |-> ((((i - 1) % 9) + ((i - 1) \div 9)) % 9) + 1]

\* what decode returns when nothing is coloured
AllFallback == [i \in 1 .. NumCells |-> FallbackDigit]

CostBases == {Solved1, Solved2, RepeatedRows, RepeatedColumns, LatinSquare, AllFallback}

\* the sequences given to cost: a base, or a base with one cell set to any digit
CostInputs == CostBases \union {[a EXCEPT ![e + 1] = d] : a \in CostBases, e \in Cells, d \in 1 .. 9}

InitCost ==
    /\ variant = "cost"
    /\ pc = "call"
    /\ solution \in CostInputs
    /\ result = <<>>
    /\ args = <<>>
    /\ board = <<>>
    /\ clues = <<>>
    /\ G = {}
    /\ coloring = EmptyDict
    /\ out = NoOutput
    /\ err = ""

\* sudoku.py, a call cost(a)
CallCost ==
    /\ variant = "cost"
    /\ pc = "call"
    /\ result' = <<cost(solution)>>
    /\ pc' = "returned"
    /\ UNCHANGED <<variant, board, clues, G, coloring, solution, out, err, args>>

NextCost == CallCost

SpecCost == InitCost /\ [][NextCost]_vars

-----------------------------------------------------------------------------
(* The grids as the puzzle describes them: rows, columns and blocks *)

Row9(i) == i \div 9
Col9(i) == i % 9
Block9(i) == <<Row9(i) \div 3, Col9(i) \div 3>>

\* the 27 units of the 9x9 grid, each a set of nine cells
Units9 ==
    {{i \in Cells : Row9(i) = r} : r \in 0 .. 8}
    \union {{i \in Cells : Col9(i) = c} : c \in 0 .. 8}
    \union {{i \in Cells : Block9(i) = b} : b \in (0 .. 2) \X (0 .. 2)}

Row4(i) == i \div 4
Col4(i) == i % 4
Block4(i) == <<Row4(i) \div 2, Col4(i) \div 2>>

\* the 12 units of the 4x4 grid, each a set of four cells
Units4 ==
    {{i \in Cells4 : Row4(i) = r} : r \in 0 .. 3}
    \union {{i \in Cells4 : Col4(i) = c} : c \in 0 .. 3}
    \union {{i \in Cells4 : Block4(i) = b} : b \in (0 .. 1) \X (0 .. 1)}

\* two different cells of one unit
Conflict(units, i, j) == i # j /\ \E u \in units : i \in u /\ j \in u

\* the pairs i < j of cells of the 9x9 grid that share a unit
UnitPairs9 == {p \in Combinations2(NumCells) : Conflict(Units9, p[1], p[2])}

-----------------------------------------------------------------------------
(* C9 *)

\* C9: in both variants adjacent(i, j) is true exactly when i # j and the two
\* cells lie in the same row, the same column or the same block; it is false
\* on (i, i) and gives the same answer on (j, i).
C9_AdjacentIsSameUnit ==
    (pc = "returned" /\ variant \in {"adjacent", "adjacent4"}) =>
        LET i == args[1]
            j == args[2]
        IN  IF variant = "adjacent"
            THEN /\ result[1] = Conflict(Units9, i, j)
                 /\ (i = j => result[1] = FALSE)
                 /\ result[1] = adjacent(j, i)
            ELSE /\ result[1] = Conflict(Units4, i, j)
                 /\ (i = j => result[1] = FALSE)
                 /\ result[1] = adjacent4(j, i)

\* two cells of one 3x3 block that share neither row nor column were found adjacent
C9_Witness ==
    /\ pc = "returned"
    /\ variant = "adjacent"
    /\ Row9(args[1]) # Row9(args[2])
    /\ Col9(args[1]) # Col9(args[2])
    /\ Block9(args[1]) = Block9(args[2])
    /\ result = <<TRUE>>

-----------------------------------------------------------------------------
(* C7 *)

\* the pairs i < j of one unit that hold the same digit in a
ConflictPairs(a) == {p \in UnitPairs9 : a[p[1] + 1] = a[p[2] + 1]}

\* each row, column and block holds 1 .. 9 once
IsCorrectSudoku(a) == \A u \in Units9 : {a[i + 1] : i \in u} = 1 .. 9

\* some row, column or block holds a digit twice
HasDuplicate(a) == \E u \in Units9 : \E i, j \in u : i # j /\ a[i + 1] = a[j + 1]

\* C7: cost returns the number of pairs i < j of cells that share a row, a
\* column or a block and hold the same digit; it is 0 on a correct Sudoku
\* solution and positive when some unit holds a digit twice.
C7_CostCountsConflicts ==
    (pc = "returned" /\ variant = "cost") =>
        /\ result[1] = Cardinality(ConflictPairs(solution))
        /\ (IsCorrectSudoku(solution) => result[1] = 0)
        /\ (HasDuplicate(solution) => result[1] > 0)

\* a sequence whose rows and columns are right and whose blocks are not was
\* given a positive cost
C7_Witness ==
    /\ pc = "returned"
    /\ variant = "cost"
    /\ \A i, j \in Cells : (i # j /\ (Row9(i) = Row9(j) \/ Col9(i) = Col9(j)))
                              => solution[i + 1] # solution[j + 1]
    /\ HasDuplicate(solution)
    /\ result[1] > 0

-----------------------------------------------------------------------------
(* C1 *)

DigitChars == <<"1", "2", "3", "4", "5", "6", "7", "8", "9">>

\* the digit a character '1' .. '9' stands for
DigitOf(x) == CHOOSE d \in 1 .. 9 : DigitChars[d] = x

\* an 81-character board whose characters are '0' .. '9' or no digits at all
IsPlainBoard(b) ==
    /\ Len(b) = NumCells
    /\ \A k \in 1 .. Len(b) : b[k] \in AsciiDigits \/ ~isdigit(b[k])

\* the values 1 .. 9 that no cell of the board holds
ValuesNotOnBoard(b) == (1 .. 9) \ {DigitOf(b[k]) : k \in {n \in 1 .. Len(b) : b[n] \in Range(DigitChars)}}

\* the list positions of the clues at cell x
CluesAt(cl, x) == {k \in 1 .. Len(cl) : cl[k][1] = x}

\* C1: on an 81-character board of characters '0'-'9' or non-digits, the values
\* of the clue list are exactly 1 .. 9; every cell holding '1'-'9' has one clue,
\* with its digit, and no other cell of the grid has one; every value no cell
\* holds has exactly one phantom clue, and the phantom clues take the indices
\* 81, 82, ... without gap or repetition.
C1_CluesCoverAllValues ==
    (variant = "9x9" /\ pc = "make_graph" /\ IsPlainBoard(board)) =>
        LET absent == ValuesNotOnBoard(board)
            phantoms == {k \in 1 .. Len(clues) : clues[k][1] >= NumCells}
        IN  /\ {clues[k][2] : k \in 1 .. Len(clues)} = 1 .. 9
            /\ \A i \in Cells :
                 IF board[i + 1] \in Range(DigitChars)
                 THEN /\ Cardinality(CluesAt(clues, i)) = 1
                      /\ \A k \in CluesAt(clues, i) : clues[k][2] = DigitOf(board[i + 1])
                 ELSE CluesAt(clues, i) = {}
            /\ \A k \in 1 .. Len(clues) : clues[k][1] >= 0
            /\ Cardinality(phantoms) = Cardinality(absent)
            /\ {clues[k][1] : k \in phantoms} = NumCells .. (NumCells + Cardinality(absent) - 1)
            /\ {clues[k][2] : k \in phantoms} = absent
            /\ \A v \in absent : Cardinality({k \in 1 .. Len(clues) : clues[k][2] = v}) = 1

\* make_clues returned both clues read off the board and two or more phantom
\* clues, the larger missing value first
C1_Witness ==
    /\ variant = "9x9"
    /\ pc = "make_graph"
    /\ IsPlainBoard(board)
    /\ \E k \in 1 .. Len(clues) : clues[k][1] < NumCells
    /\ \E k \in 1 .. (Len(clues) - 1) :
         /\ clues[k][1] = NumCells
         /\ clues[k + 1][1] = NumCells + 1
         /\ clues[k][2] > clues[k + 1][2]

-----------------------------------------------------------------------------
(* C6 *)

\* C6: a board whose length is not 81 is rejected with InvalidGridError before
\* clues, a graph or a printed solution are made of it.
C6_WrongLengthRejected ==
    (variant = "9x9" /\ Len(board) # NumCells) =>
        \/ pc = "make_clues"
        \/ pc = "raised" /\ err = "InvalidGridError"

-----------------------------------------------------------------------------
(* C2, C3 *)

\* the cells of the grid of the program that runs
RealCells == IF variant = "4x4" THEN Cells4 ELSE Cells

\* the adjacent of the program that runs
AdjacentHere(i, j) == IF variant = "4x4" THEN adjacent4(i, j) ELSE adjacent(i, j)

\* the make_sudoku_graph of the program that runs
GraphHere(cl) == IF variant = "4x4" THEN make_sudoku_graph4(cl) ELSE make_sudoku_graph(cl)

\* the pairs of cells of two clues of the list with different values
DifferingClueCells(cl) ==
    {<<cl[p[1]][1], cl[p[2]][1]>> :
        p \in {q \in (1 .. Len(cl)) \X (1 .. Len(cl)) : cl[q[1]][2] # cl[q[2]][2]}}

\* the list with its first two elements exchanged
SwapFirstTwo(s) == IF Len(s) < 2 THEN s ELSE <<s[2], s[1]>> \o SubSeq(s, 3, Len(s))

\* C2: the graph has the edge {i, j} if and only if i and j are adjacent cells
\* of the grid or the cells of two clues with different values; the graph of
\* the reversed list, of the rotated list and of the list with its first two
\* clues exchanged has the same edges, and as many.
C2_EdgesAreConflicts ==
    (variant \in {"9x9", "4x4"} /\ pc = "color") =>
        LET differing == DifferingClueCells(clues)
            V == RealCells \union {c[1] : c \in Range(clues)}
        IN  /\ Nodes(G) \subseteq V
            /\ \A i, j \in V :
                 ({i, j} \in G) <=>
                    \/ i \in RealCells /\ j \in RealCells /\ AdjacentHere(i, j)
                    \/ <<i, j>> \in differing
            /\ \A permuted \in {Reverse(clues), Rotate(clues), SwapFirstTwo(clues)} :
                 /\ GraphHere(permuted) = G
                 /\ Cardinality(GraphHere(permuted)) = Cardinality(G)

\* the 9x9 graph was built with an edge between a phantom clue and a clue of
\* the board, and an edge between two cells of the board that are not adjacent
C2_Witness ==
    /\ variant = "9x9"
    /\ pc = "color"
    /\ \E e \in G : \E i, j \in e : i < NumCells /\ j >= NumCells
    /\ \E e \in G : \E i, j \in e : i < j /\ j < NumCells /\ ~adjacent(i, j)

\* C3: the graph make_sudoku_graph returns has no edge from a vertex to itself.
C3_NoSelfLoop ==
    (variant \in {"9x9", "4x4"} /\ pc \notin {"make_clues", "make_graph"}) =>
        \A e \in G : Cardinality(e) = 2

-----------------------------------------------------------------------------
(* Colourings *)

ClueCells(cl) == {c[1] : c \in Range(cl)}

\* no edge whose two ends are coloured has them in one colour (a self-loop at
\* a coloured vertex does)
Proper(g, col) == \A e \in g : e \subseteq DOMAIN col => Cardinality({col[x] : x \in e}) = 2

\* two clue cells have the same colour exactly when their clues have the same value
OneToOne(col, cl) ==
    \A p, q \in 1 .. Len(cl) : (col[cl[p][1]] = col[cl[q][1]]) <=> (cl[p][2] = cl[q][2])

\* the list positions of the clues whose cell has the colour c
CluesColoured(col, cl, c) == {k \in 1 .. Len(cl) : cl[k][1] \in DOMAIN col /\ col[cl[k][1]] = c}

Max(S) == CHOOSE x \in S : \A y \in S : x >= y

-----------------------------------------------------------------------------
(* C4 *)

\* C4: the 9x9 decode returns 81 values; the value of cell i is 9 when i has no
\* colour or no coloured clue cell has the colour of i, and otherwise the value
\* of the last clue of the list whose cell has the colour of i.
C4_DecodeFallsBackToNine ==
    (variant = "9x9" /\ pc = "report") =>
        /\ Len(solution) = NumCells
        /\ \A i \in Cells :
             solution[i + 1] =
                IF i \notin DOMAIN coloring \/ CluesColoured(coloring, clues, coloring[i]) = {}
                THEN 9
                ELSE clues[Max(CluesColoured(coloring, clues, coloring[i]))][2]

-----------------------------------------------------------------------------
(* C5 *)

\* every clue cell and every cell of the grid has a colour, and the colour of
\* every cell of the grid is the colour of some clue cell
Resolvable4(col, cl) ==
    /\ ClueCells(cl) \subseteq DOMAIN col
    /\ Cells4 \subseteq DOMAIN col
    /\ \A i \in Cells4 : \E x \in ClueCells(cl) : col[x] = col[i]

\* C5: the 4x4 decode prints 16 digits exactly when every clue cell and every
\* cell of the grid is coloured and every cell of the grid has the colour of a
\* clue cell; otherwise it raises KeyError and prints nothing.  With the clue
\* list of main and five different labels on its five clue cells it completes
\* only if every other cell has one of these five labels.
C5_Decode4HasNoFallback ==
    /\ (variant = "4x4" /\ pc = "done") =>
          /\ Resolvable4(coloring, clues)
          /\ Len(solution) = NumCells4
          /\ Len(out.grid) = 4
          /\ \A r \in 1 .. 4 : out.grid[r] = SubSeq(solution, 4 * (r - 1) + 1, 4 * r)
          /\ \A i \in 1 .. NumCells4 : solution[i] \in {c[2] : c \in Range(clues)}
          /\ err = ""
    /\ (variant = "4x4" /\ pc = "raised" /\ err # "OracleError") =>
          /\ ~Resolvable4(coloring, clues)
          /\ err = "KeyError"
          /\ out = NoOutput
    /\ (/\ variant = "4x4"
        /\ pc = "done"
        /\ clues = MainClues
        /\ Cardinality({coloring[x] : x \in ClueCells(MainClues)}) = 5) =>
          \A i \in Cells4 : coloring[i] \in {coloring[x] : x \in ClueCells(MainClues)}

\* the clue list of main was decoded from a colouring with five labels on the
\* five clue cells
C5_Witness ==
    /\ variant = "4x4"
    /\ pc = "done"
    /\ clues = MainClues
    /\ Cardinality({coloring[x] : x \in ClueCells(MainClues)}) = 5
    /\ Len(out.grid) = 4

-----------------------------------------------------------------------------
(* C8 *)

\* decode was called
Decoded ==
    \/ variant = "9x9" /\ pc = "report"
    \/ variant = "4x4" /\ pc = "done"
    \/ variant = "4x4" /\ pc = "raised" /\ err = "KeyError"

\* the colouring colours all clue cells, is proper on the graph, and its
\* colours correspond one to one to the clue values
CorrectColoring ==
    /\ ClueCells(clues) \subseteq DOMAIN coloring
    /\ Proper(G, coloring)
    /\ OneToOne(coloring, clues)

\* the solution holds the digit of every clue at the clue's cell of the grid
CluesReproduced ==
    \A k \in 1 .. Len(clues) :
        clues[k][1] \in RealCells => solution[clues[k][1] + 1] = clues[k][2]

\* C8 as stated: for every clue list and every colouring that colours all clue
\* cells, is proper and whose colours correspond one to one to the clue values,
\* decode yields at every clue cell of the grid the digit of that clue.
C8_DecodeYieldsClues ==
    (Decoded /\ CorrectColoring) =>
        \A k \in 1 .. Len(clues) :
            clues[k][1] \in RealCells =>
                pc # "raised" /\ solution[clues[k][1] + 1] = clues[k][2]

\* C8, amended: for such a colouring decode, when it returns, yields at every
\* clue cell of the grid the digit of that clue; the 9x9 decode always returns,
\* the 4x4 decode raises KeyError when a cell of the grid has no colour or a
\* colour that no clue cell has.
C8_DecodeYieldsCluesWhenItReturns ==
    (Decoded /\ CorrectColoring) =>
        IF pc = "raised"
        THEN /\ variant = "4x4"
             /\ \E i \in Cells4 :
                   \/ i \notin DOMAIN coloring
                   \/ \A x \in ClueCells(clues) : coloring[x] # coloring[i]
        ELSE CluesReproduced

\* the 9x9 decode returned for a correct colouring of a board with clues
C8_Witness ==
    /\ variant = "9x9"
    /\ pc = "report"
    /\ CorrectColoring
    /\ \E k \in 1 .. Len(clues) : clues[k][1] \in Cells
    /\ CluesReproduced

-----------------------------------------------------------------------------
(* C10 *)

\* the colouring covers every vertex of the graph, is proper and uses at most
\* nine labels
ProperNineColoring ==
    /\ Nodes(G) \subseteq DOMAIN coloring
    /\ Proper(G, coloring)
    /\ Cardinality(Range(coloring)) <= 9

\* C10: on an 81-character board, if the colouring covers every vertex of the
\* graph, is proper and uses at most nine labels, then clues of one value have
\* one colour, the lookup of decode is a bijection onto 1 .. 9, no cell misses
\* the lookup, the solution has cost 0 and holds every clue of the board at
\* its cell.
C10_ProperColoringDecodesToSolution ==
    (variant = "9x9" /\ pc = "done" /\ Len(board) = NumCells /\ ProperNineColoring) =>
        LET lk == Lookup(coloring, clues)
        IN  /\ ClueCells(clues) \subseteq DOMAIN coloring
            /\ \A p, q \in 1 .. Len(clues) :
                 clues[p][2] = clues[q][2] => coloring[clues[p][1]] = coloring[clues[q][1]]
            /\ {lk[c] : c \in DOMAIN lk} = 1 .. 9
            /\ \A c, d \in DOMAIN lk : lk[c] = lk[d] => c = d
            /\ \A i \in Cells : coloring[i] \in DOMAIN lk
            /\ out.cost = <<0>>
            /\ IsCorrectSudoku(solution)
            /\ \A i \in Cells :
                 /\ board[i + 1] \in Range(DigitChars) => solution[i + 1] = DigitOf(board[i + 1])
                 /\ \A k \in CluesAt(clues, i) : solution[i + 1] = clues[k][2]

\* a board with missing values was solved from a proper colouring that uses
\* '?' as one of its nine labels
C10_Witness ==
    /\ variant = "9x9"
    /\ pc = "done"
    /\ Len(board) = NumCells
    /\ ProperNineColoring
    /\ \E k \in 1 .. Len(clues) : clues[k][1] >= NumCells
    /\ \E k \in 1 .. Len(clues) : clues[k][1] < NumCells
    /\ Sentinel \in Range(coloring)
    /\ out.cost = <<0>>

====
